---- MODULE Spec2Model ----
(***************************************************************************)
(* AzureCostPilot: the server's credential store, cost-record store,       *)
(* refresh (ingestion) handler, unified month-to-date total handler and    *)
(* the UTC month window, modelled from server/routes.ts, server/storage.ts *)
(* and the provider route files.                                           *)
(*                                                                         *)
(* Amounts are integers in thousandths of a dollar (1 USD = 1000), so that *)
(* a value with more than two decimals and its rounding to two decimals    *)
(* (a multiple of 10) are different numbers.                               *)
(* Instants are records [day, sec]: the day number since 1970-01-01 UTC    *)
(* and the second within that day.                                         *)
(***************************************************************************)
EXTENDS Integers, Sequences, FiniteSets, TLC

\* ------------------------------------------------------------------ bounds

\* First calendar year, and number of consecutive years, of the reference
\* instants the month-window specification draws from.
WinFirstYear == 2023
WinYears == 2

\* Credentials ever created (ids are fresh, as randomUUID gives them).
MaxCreds == 2

\* Clock ticks a behaviour may take.
MaxTicks == 1

\* ---------------------------------------------------------------- values

\* JavaScript null in a string- or secret-valued field.
NULL == "null"

\* JavaScript null in a Date-valued field (lastSync).
NoDate == [day |-> 0 - 1, sec |-> 0]

\* A cost field (dailyCost, monthlyCost) that is null.
NoCost == -1

\* The amount NaN: what Number() gives for a value that is no number.
NaN == 0 - 999999

\* No month window computed yet.
NoWindow == [computed |-> FALSE]

\* No response sent by the last step.
NoResp == [status |-> 0, body |-> <<>>]

\* The raw secrets of the environment's credentials.
AzureClientSecret == "raw-azure-client-secret"
MongoPrivateKey == "raw-mongodb-private-key"

RefreshProcs == {"r1", "r2"}

VARIABLES
    now,               \* the server clock: what new Date() / Date.now() reads
    ticks,             \* clock ticks taken
    window,            \* result of the last month-window computation, if any
    env,               \* process.env: which providers are configured
    servicePrincipals, \* MemStorage.servicePrincipals, in insertion order
    nextId,            \* next fresh credential id
    costData,          \* MemStorage.costData, in insertion order
    costSummaries,     \* MemStorage.costSummaries: what getLatestCostSummary can see
    azureUp,           \* what the Azure Cost Management API answers
    mongoUp,           \* what the MongoDB Atlas API answers
    awsUp,             \* what AWS Cost Explorer answers
    gcpUp,             \* what the GCP BigQuery billing export answers
    ceCacheByOrg,      \* the Cost Explorer cache entry of the configured org
    refresh,           \* per POST /api/refresh-cost-data in flight: its position
    total,             \* the GET /api/total/mtd-usd in flight: its position
    totalResp,         \* the last response of GET /api/total/mtd-usd
    spnResp,           \* the response of the last step, if a credential endpoint
    prevStored,        \* history: the stored records when the last refresh ended
    calm,              \* history: refresh calls begun since the last other write
    poll,              \* the Cost Explorer result poll in flight: its position
    ceReq,             \* the requests to the Cost Explorer routes: their position
    agent,             \* POST /api/agent/suggest: its cache, request and response
    openai,            \* GET /api/openai/usage: its cache, request and response
    replit             \* the last call of getMonthRangeIso: its selector and result

vars == <<now, ticks, window, env, servicePrincipals, nextId, costData,
          costSummaries, azureUp, mongoUp, awsUp, gcpUp, ceCacheByOrg, refresh,
          total, totalResp, spnResp, prevStored, calm, poll,
                   ceReq, agent, openai,
                   replit>>

\* ------------------------------------------------- calendar (Date.UTC etc.)

\* ECMAScript DayFromYear: day number of January 1st of year y.
DayFromYear(y) ==
    365 * (y - 1970) + ((y - 1969) \div 4) - ((y - 1901) \div 100)
        + ((y - 1601) \div 400)

\* ECMAScript YearFromTime on a day number: the year the day falls in.
YearFromDay(d) ==
    LET y0 == 1970 + (d \div 366)
    IN  CHOOSE y \in (y0 - 1)..(y0 + 1) : DayFromYear(y) <= d /\ d < DayFromYear(y + 1)

\* ECMAScript InLeapYear, as the length of the year.
DaysInYear(y) == DayFromYear(y + 1) - DayFromYear(y)

\* Day-within-year at which month m (0 = January) starts, as in the
\* ECMAScript MonthFromTime table.
MonthStart(y, m) ==
    LET leap == IF DaysInYear(y) = 366 THEN 1 ELSE 0
        tbl  == <<0, 31, 59, 90, 120, 151, 181, 212, 243, 273, 304, 334, 365>>
    IN  tbl[m + 1] + (IF m >= 2 THEN leap ELSE 0)

\* Date.prototype.getUTCFullYear
getUTCFullYear(t) == YearFromDay(t.day)

\* Date.prototype.getUTCMonth (0 = January)
getUTCMonth(t) ==
    LET y   == YearFromDay(t.day)
        dwy == t.day - DayFromYear(y)
    IN  CHOOSE m \in 0..11 : MonthStart(y, m) <= dwy /\ dwy < MonthStart(y, m + 1)

\* Date.prototype.getUTCDate (1 = first of the month)
getUTCDate(t) ==
    LET y == YearFromDay(t.day)
    IN  t.day - DayFromYear(y) - MonthStart(y, getUTCMonth(t)) + 1

\* Date.UTC(year, month, date): a year in 0..99 is 1900 + year, ECMAScript
\* MakeDay carries a month outside 0..11 into the year; the time of day is
\* 00:00:00.
DateUTC(year, month, date) ==
    LET ym == (IF 0 <= year /\ year <= 99 THEN 1900 + year ELSE year) + (month \div 12)
        mn == month % 12
    IN  [day |-> DayFromYear(ym) + MonthStart(ym, mn) + date - 1, sec |-> 0]

\* The window with the end computed in the year of the start (no carry of
\* month 12 into the next year).
MonthWindowNoCarry(t) ==
    [start |-> DateUTC(getUTCFullYear(t), getUTCMonth(t), 1),
     end   |-> DateUTC(getUTCFullYear(t), (getUTCMonth(t) + 1) % 12, 1)]

\* The month window every handler computes from its reference instant:
\* start = Date.UTC(y, m, 1), end = Date.UTC(y, m + 1, 1).
MonthWindowUtc(t) ==
    [start |-> DateUTC(getUTCFullYear(t), getUTCMonth(t), 1),
     end   |-> DateUTC(getUTCFullYear(t), getUTCMonth(t) + 1, 1)]

\* toISOString().slice(0, 10): the calendar date of an instant.
IsoDate(t) == [y |-> getUTCFullYear(t), m |-> getUTCMonth(t) + 1, d |-> getUTCDate(t)]

\* getMonthWindowUtc of the agent routes, and the start/end strings of the
\* total and GCP responses: the window as two ISO dates.
getMonthWindowUtc(t) ==
    [start |-> IsoDate(MonthWindowUtc(t).start), end |-> IsoDate(MonthWindowUtc(t).end)]

\* ----------------------------------------------------------------- time

\* a <= b on instants (Date comparison).
DateLe(a, b) == a.day < b.day \/ (a.day = b.day /\ a.sec <= b.sec)

\* b - a in seconds.
SecondsBetween(a, b) == (b.day - a.day) * 86400 + (b.sec - a.sec)

\* The clock advanced by two minutes.
TickedClock(t) ==
    IF t.sec + 120 >= 86400 THEN [day |-> t.day + 1, sec |-> t.sec + 120 - 86400]
    ELSE [day |-> t.day, sec |-> t.sec + 120]

\* Number.prototype.toFixed(2) of the non-negative amount n / d (in
\* thousandths): the nearest multiple of 10 thousandths, halves up.
ToFixed2(n, d) == IF n = NaN THEN NaN ELSE 10 * ((2 * n + 10 * d) \div (20 * d))

\* The sum of two numbers, NaN when either is NaN.
Plus(a, b) == IF a = NaN \/ b = NaN THEN NaN ELSE a + b

\* ------------------------------------------------------- MemStorage

\* A credential as initializeAzureCredentials and createServicePrincipal
\* store it: status active, lastSync and errorMessage null.
NewServicePrincipal(id, provider) ==
    [id |-> id, provider |-> provider, status |-> "active",
     lastSync |-> NoDate, errorMessage |-> NULL,
     clientSecret |-> IF provider = "azure" THEN AzureClientSecret ELSE NULL,
     privateKey |-> IF provider = "mongodb" THEN MongoPrivateKey ELSE NULL]

\* The constructor: a default Azure credential, then a default MongoDB
\* credential, each when the environment configures it.
initializeAzureCredentials(e) ==
    LET az == IF e.azure THEN <<NewServicePrincipal(1, "azure")>> ELSE <<>>
    IN  IF e.mongo THEN Append(az, NewServicePrincipal(Len(az) + 1, "mongodb"))
        ELSE az

SpnIds(spns) == { spns[i].id : i \in DOMAIN spns }

getServicePrincipal(spns, id) == CHOOSE s \in { spns[i] : i \in DOMAIN spns } : s.id = id

\* { ...existing, ...updates }
MergeUpdates(existing, updates) ==
    [f \in DOMAIN existing |-> IF f \in DOMAIN updates THEN updates[f] ELSE existing[f]]

\* updateServicePrincipal: an unknown id changes nothing.
updateServicePrincipal(spns, id, updates) ==
    [i \in DOMAIN spns |->
        IF spns[i].id = id THEN MergeUpdates(spns[i], updates) ELSE spns[i]]

deleteServicePrincipal(spns, id) == SelectSeq(spns, LAMBDA s : s.id # id)

\* getCostData with the dateFrom and dateTo filters.
getCostData(data, dateFrom, dateTo) ==
    SelectSeq(data, LAMBDA e : DateLe(dateFrom, e.date) /\ DateLe(e.date, dateTo))

createCostData(data, entry) == Append(data, entry)

clearCostDataByProviderType(data, provider) ==
    SelectSeq(data, LAMBDA e : e.provider # provider)

\* bulkCreateCostData without the clear before the inserts.
bulkCreateNoClear(data, entries) == data \o entries

\* bulkCreateCostData: this.costData.clear(), then one createCostData per entry.
bulkCreateCostData(data, entries) == entries

\* createCostSummary, keeping of the summaries the one getLatestCostSummary
\* returns: the sort by lastUpdated is stable, so of two summaries with the
\* same lastUpdated the one stored first stays the latest.
createCostSummary(summaries, summary) ==
    IF summaries = <<>> THEN <<summary>>
    ELSE IF DateLe(summary.lastUpdated, summaries[1].lastUpdated) THEN summaries
    ELSE <<summary>>

\* --------------------------------------------------------- upstream APIs

\* Azure Cost Management: an error, or rows [cost, date, currency] with the
\* cost in thousandths of its currency and the date as YYYYMMDD. The rows
\* are stored with whatever date, amount and currency the API reports: one
\* is dated the first day of the next month, one has a fraction of a cent,
\* one has a currency other than USD and INR.
AzureUpSet ==
    { [kind |-> "fail", rows |-> <<>>],
      [kind |-> "rows", rows |-> <<>>],
      [kind |-> "rows", rows |-> << [cost |-> 12500, date |-> 20240210, currency |-> "USD"],
                                    [cost |-> 1000000, date |-> 20240229, currency |-> "INR"],
                                    [cost |-> 7504, date |-> 20240301, currency |-> "USD"],
                                    [cost |-> 500000, date |-> 20240220, currency |-> "EUR"] >>],
      [kind |-> "rows", rows |-> << [cost |-> NaN, date |-> 20240215, currency |-> "USD"] >>] }

\* MongoDB Atlas: Cost Explorer answers an amount ("ce"), or only the
\* usage API answers ("usage"), or nothing answers ("down"), or a cost
\* endpoint answers a body that cannot be processed ("malformed").
MongoUpSet ==
    { [kind |-> "ce", ce |-> 5004, usage |-> <<>>],
      [kind |-> "usage", ce |-> 0,
       usage |-> << [date |-> [day |-> DayFromYear(2024) + 42, sec |-> 0], amountUsd |-> 2500] >>],
      [kind |-> "down", ce |-> 0, usage |-> <<>>],
      [kind |-> "malformed", ce |-> 0, usage |-> <<>>] }

\* AWS Cost Explorer: the month-to-date total, when it answers.
AwsUpSet == { [ok |-> FALSE, total |-> 0], [ok |-> TRUE, total |-> 38400] }

\* GCP billing export: SUM(cost) of the month, when the query answers.
GcpUpSet == { [ok |-> FALSE, total |-> 0], [ok |-> TRUE, total |-> 12104] }

\* ---------------------------------------------- connection tests

\* testAzureConnection: throws on missing Azure fields or a failing call.
testAzureConnection(spn) == spn.clientSecret # NULL /\ azureUp.kind # "fail"

\* testMongoDBAtlasConnection: throws on missing Atlas keys or a failing call.
testMongoDBAtlasConnection(spn) == spn.privateKey # NULL /\ mongoUp.kind # "down"

\* ------------------------------------- /api/service-principals handlers

\* The masking of the three handlers: { ...spn, clientSecret: "****", ... }.
maskedSpn(spn) == [spn EXCEPT !.clientSecret = "****"]

\* Status values a PUT body may carry.
PutStatuses == {"active", "error", "disabled", "paused"}

otherVarsOfSpn ==
    <<now, ticks, window, env, costData, costSummaries, azureUp, mongoUp, awsUp,
      gcpUp, ceCacheByOrg, refresh, total, totalResp, prevStored, poll,
                   ceReq, agent, openai,
                   replit>>

\* GET /api/service-principals
ListServicePrincipals ==
    /\ spnResp' = [status |-> 200,
                   body |-> [i \in DOMAIN servicePrincipals |-> maskedSpn(servicePrincipals[i])]]
    /\ UNCHANGED <<servicePrincipals, nextId, calm>>
    /\ UNCHANGED otherVarsOfSpn

\* POST /api/service-principals: create, test the connection by provider,
\* record the outcome; the response is the credential as created.
CreateServicePrincipal(provider) ==
    /\ nextId <= MaxCreds
    /\ LET spn == NewServicePrincipal(nextId, provider)
           ok  == IF provider = "azure" THEN testAzureConnection(spn)
                  ELSE testMongoDBAtlasConnection(spn)
           upd == IF ok THEN [status |-> "active", lastSync |-> now, errorMessage |-> NULL]
                  ELSE [status |-> "error", errorMessage |-> "Authentication failed"]
       IN  /\ servicePrincipals' =
                updateServicePrincipal(Append(servicePrincipals, spn), spn.id, upd)
           /\ spnResp' = [status |-> 201, body |-> <<maskedSpn(spn)>>]
    /\ nextId' = nextId + 1
    /\ calm' = 0
    /\ UNCHANGED otherVarsOfSpn

\* PUT /api/service-principals/:id with the request body as the updates.
UpdateServicePrincipal(id, updates) ==
    /\ IF id \in SpnIds(servicePrincipals)
       THEN /\ servicePrincipals' = updateServicePrincipal(servicePrincipals, id, updates)
            /\ spnResp' = [status |-> 200,
                           body |-> <<maskedSpn(getServicePrincipal(servicePrincipals', id))>>]
       ELSE /\ spnResp' = [status |-> 404, body |-> <<>>]
            /\ UNCHANGED servicePrincipals
    /\ calm' = 0
    /\ UNCHANGED nextId
    /\ UNCHANGED otherVarsOfSpn

\* DELETE /api/service-principals/:id
DeleteServicePrincipal(id) ==
    /\ servicePrincipals' = deleteServicePrincipal(servicePrincipals, id)
    /\ spnResp' = [status |-> IF id \in SpnIds(servicePrincipals) THEN 204 ELSE 404,
                   body |-> <<>>]
    /\ calm' = 0
    /\ UNCHANGED nextId
    /\ UNCHANGED otherVarsOfSpn

\* POST /api/service-principals/:id/test-connection: testAzureConnection
\* whatever the provider; the catch block updates the id of the request.
TestConnection(id) ==
    /\ IF id \notin SpnIds(servicePrincipals)
       THEN /\ spnResp' = [status |-> 404, body |-> <<>>]
            /\ UNCHANGED servicePrincipals
       ELSE IF testAzureConnection(getServicePrincipal(servicePrincipals, id))
       THEN /\ servicePrincipals' = updateServicePrincipal(servicePrincipals, id,
                    [status |-> "active", lastSync |-> now, errorMessage |-> NULL])
            /\ spnResp' = [status |-> 200, body |-> <<>>]
       ELSE /\ servicePrincipals' = updateServicePrincipal(servicePrincipals, id,
                    [status |-> "error", errorMessage |-> "Authentication failed"])
            /\ spnResp' = [status |-> 400, body |-> <<>>]
    /\ calm' = 0
    /\ UNCHANGED nextId
    /\ UNCHANGED otherVarsOfSpn

\* ------------------------------------------------------- ingestion

\* AZURE_INR_TO_USD_RATE, default "0.012", in thousandths.
InrToUsdRate == 12

\* new Date(year, month - 1, day) of a YYYYMMDD date (server time zone UTC).
ParseYYYYMMDD(n) == DateUTC(n \div 10000, ((n \div 100) % 100) - 1, n % 100)

\* The normalisation of one Azure row to USD, then toFixed(2): USD is kept,
\* INR and any other currency are multiplied by the rate.
dailyCostUsd(cost, currency) ==
    IF cost = NaN THEN NaN
    ELSE IF currency = "USD" THEN ToFixed2(cost, 1) ELSE ToFixed2(cost * InrToUsdRate, 1000)

\* The cost entries fetchAzureCostData builds from the rows of the API.
AzureCostEntries(spn, rows) ==
    [i \in DOMAIN rows |->
        [providerId |-> spn.id, provider |-> "azure",
         date |-> ParseYYYYMMDD(rows[i].date),
         dailyCost |-> dailyCostUsd(rows[i].cost, rows[i].currency),
         monthlyCost |-> NoCost, currency |-> "USD"]]

\* fetchAzureCostData: throws on missing fields or a failing API; stores
\* with bulkCreateCostData when the API returned at least one row.
fetchAzureCostData(spn, data) ==
    IF spn.clientSecret = NULL \/ azureUp.kind = "fail"
    THEN [threw |-> TRUE, data |-> data]
    ELSE LET costEntries == AzureCostEntries(spn, azureUp.rows)
         IN  [threw |-> FALSE,
              data |-> IF Len(costEntries) > 0 THEN bulkCreateCostData(data, costEntries)
                       ELSE data]

\* The entries the usage API fallback of fetchMongoDBAtlasCostData builds.
MongoUsageEntries(spn, results) ==
    [i \in DOMAIN results |->
        [providerId |-> spn.id, provider |-> "mongodb", date |-> results[i].date,
         dailyCost |-> ToFixed2(results[i].amountUsd, 1), monthlyCost |-> NoCost,
         currency |-> "USD"]]

\* fetchMongoDBAtlasCostData up to its first upstream call: the MongoDB
\* records are cleared before anything is fetched.
fetchMongoBegin(data) == clearCostDataByProviderType(data, "mongodb")

\* fetchMongoDBAtlasCostData from its first upstream call on: one Cost
\* Explorer month-to-date row when Cost Explorer gives a positive amount,
\* else the usage rows (clear, then insert) when there are any, else
\* nothing; a body that cannot be processed throws.
fetchMongoEnd(spn, data, t) ==
    IF spn.privateKey = NULL \/ mongoUp.kind = "malformed"
    THEN [threw |-> TRUE, data |-> data]
    ELSE IF mongoUp.kind = "ce" /\ mongoUp.ce > 0
    THEN [threw |-> FALSE,
          data |-> createCostData(data,
                      [providerId |-> spn.id, provider |-> "mongodb", date |-> t,
                       dailyCost |-> NoCost, monthlyCost |-> ToFixed2(mongoUp.ce, 1),
                       currency |-> "USD"])]
    ELSE IF mongoUp.kind = "usage" /\ Len(mongoUp.usage) > 0
    THEN [threw |-> FALSE,
          data |-> clearCostDataByProviderType(data, "mongodb")
                      \o MongoUsageEntries(spn, mongoUp.usage)]
    ELSE [threw |-> FALSE, data |-> data]

\* What a handler reads as the amount of a record: monthlyCost when set,
\* else dailyCost when set, else 0.
RowAmount(e) ==
    IF e.monthlyCost # NoCost THEN e.monthlyCost
    ELSE IF e.dailyCost # NoCost THEN e.dailyCost ELSE 0

RECURSIVE SumAmounts(_)
SumAmounts(rows) ==
    IF rows = <<>> THEN 0 ELSE Plus(RowAmount(Head(rows)), SumAmounts(Tail(rows)))

\* updateCostSummary: nothing when no record is stored, else a new summary
\* of all stored records.
updateCostSummary(data, summaries, t) ==
    IF Len(data) = 0 THEN summaries
    ELSE createCostSummary(summaries,
            [totalMonthlyCost |-> SumAmounts(data), lastUpdated |-> t])

\* ------------------------------------- POST /api/refresh-cost-data

\* The filter that also lets disabled credentials through.
activeSpnsNotError(spns) == SelectSeq(spns, LAMBDA s : s.status # "error")

\* spns.filter(spn => spn.status === "active")
activeSpns(spns) == SelectSeq(spns, LAMBDA s : s.status = "active")

IdleRefresh ==
    [pc |-> "idle", spns |-> <<>>, i |-> 0, resp |-> [status |-> 0, success |-> FALSE],
     ran |-> {}, skipped |-> {}, failed |-> 0]

\* The part of an ingestion that runs before its first upstream call.
IngestBegin(spn, data) ==
    IF spn.provider = "mongodb" THEN fetchMongoBegin(data) ELSE data

\* The part of an ingestion that runs once the upstream has answered.
IngestEnd(spn, data, t) ==
    IF spn.provider = "azure" THEN fetchAzureCostData(spn, data)
    ELSE fetchMongoEnd(spn, data, t)

\* The stored records as a row count and a summed amount per provider.
Stored(data) ==
    [p \in {"azure", "mongodb"} |->
        LET rows == SelectSeq(data, LAMBDA e : e.provider = p)
        IN  [count |-> Len(rows), sum |-> SumAmounts(rows)]]

otherVarsOfRefresh ==
    <<now, ticks, window, env, nextId, azureUp, mongoUp, awsUp, gcpUp,
      ceCacheByOrg, total, totalResp, poll,
                   ceReq, agent, openai,
                   replit>>

\* The handler up to the first upstream call: read the credentials, keep the
\* active ones, answer at once when there is none, else begin the first
\* ingestion.
RefreshStart(r) ==
    /\ refresh[r].pc = "idle"
    /\ LET act == activeSpns(servicePrincipals)
           off == { servicePrincipals[k].id : k \in
                      { j \in DOMAIN servicePrincipals :
                          servicePrincipals[j].status = "disabled" } }
       IN  IF Len(act) = 0
           THEN /\ refresh' = [refresh EXCEPT ![r] =
                      [IdleRefresh EXCEPT !.resp = [status |-> 200, success |-> FALSE],
                                          !.skipped = off]]
                /\ prevStored' = Stored(costData)
                /\ UNCHANGED costData
           ELSE /\ refresh' = [refresh EXCEPT ![r] =
                      [pc |-> "ingest", spns |-> act, i |-> 1,
                       resp |-> [status |-> 0, success |-> FALSE],
                       ran |-> {act[1].id}, skipped |-> off, failed |-> 0]]
                /\ costData' = IngestBegin(act[1], costData)
                /\ UNCHANGED prevStored
    /\ calm' = IF calm < 2 THEN calm + 1 ELSE 2
    /\ spnResp' = NoResp
    /\ UNCHANGED <<servicePrincipals, costSummaries>>
    /\ UNCHANGED otherVarsOfRefresh

\* The handler from one upstream answer to the next upstream call or to the
\* response: finish the current ingestion; if it threw, answer 500; else set
\* the credential's lastSync and begin the next ingestion, or, after the
\* last one, update the cost summary and answer success.
RefreshStep(r) ==
    /\ refresh[r].pc = "ingest"
    /\ LET st   == refresh[r]
           spn  == st.spns[st.i]
           done == IngestEnd(spn, costData, now)
           sps  == updateServicePrincipal(servicePrincipals, spn.id, [lastSync |-> now])
       IN  IF done.threw
           THEN /\ refresh' = [refresh EXCEPT ![r] =
                      [st EXCEPT !.pc = "idle", !.resp = [status |-> 500, success |-> FALSE],
                                 !.failed = spn.id]]
                /\ costData' = done.data
                /\ prevStored' = Stored(done.data)
                /\ UNCHANGED <<servicePrincipals, costSummaries>>
           ELSE IF st.i < Len(st.spns)
           THEN /\ refresh' = [refresh EXCEPT ![r] =
                      [st EXCEPT !.i = st.i + 1, !.ran = st.ran \cup {st.spns[st.i + 1].id}]]
                /\ costData' = IngestBegin(st.spns[st.i + 1], done.data)
                /\ servicePrincipals' = sps
                /\ UNCHANGED <<costSummaries, prevStored>>
           ELSE /\ refresh' = [refresh EXCEPT ![r] =
                      [st EXCEPT !.pc = "idle", !.resp = [status |-> 200, success |-> TRUE]]]
                /\ costData' = done.data
                /\ servicePrincipals' = sps
                /\ costSummaries' = updateCostSummary(done.data, costSummaries, now)
                /\ prevStored' = Stored(done.data)
    /\ spnResp' = NoResp
    /\ UNCHANGED calm
    /\ UNCHANGED otherVarsOfRefresh

\* ------------------------------------------------------------ the clock

Tick ==
    /\ ticks < MaxTicks
    /\ ticks' = ticks + 1
    /\ now' = TickedClock(now)
    /\ spnResp' = NoResp
    /\ UNCHANGED <<window, env, servicePrincipals, nextId, costData, costSummaries,
                   azureUp, mongoUp, awsUp, gcpUp, ceCacheByOrg, refresh, total,
                   totalResp, prevStored, calm, poll,
                   ceReq, agent, openai,
                   replit>>

\* ------------------------------------------- GET /api/total/mtd-usd

\* Cache lifetimes of the Cost Explorer routes, in milliseconds.
CE_USAGE_TTL_MS == 300000
CE_TOKEN_TTL_MS == 120000

\* The routes of the server that answer a JSON body with a total.
SummaryRoutes == {"/api/gcp/mtd-summary"}

\* The fetch without the defaults of its catch and of "|| 0".
fetchTotalNoDefault(route, up) ==
    IF route \in SummaryRoutes /\ up.ok THEN up.total ELSE NaN

\* fetch(route).then(r => r.json()).catch(() => ({ total: 0 })) followed by
\* Number(resp?.total || 0): a route the server does not register, or one
\* that answers an error, gives 0.
fetchTotal(route, up) ==
    IF route \in SummaryRoutes /\ up.ok THEN up.total ELSE 0

\* POST /api/mongodb/ce-init: the cached token while it is fresh, else a new
\* token from Atlas; no token without the environment's Atlas keys or when
\* Atlas does not answer.
ceInit(cache, t) ==
    IF ~env.mongo THEN [token |-> NULL, cache |-> cache]
    ELSE IF cache.token # NULL /\ 1000 * SecondsBetween(cache.tokenAtMs, t) < CE_TOKEN_TTL_MS
    THEN [token |-> cache.token, cache |-> cache]
    ELSE IF mongoUp.kind \in {"down", "malformed"} THEN [token |-> NULL, cache |-> cache]
    ELSE [token |-> "token", cache |-> [cache EXCEPT !.token = "token", !.tokenAtMs = t]]

\* GET /api/mongodb/ce-usage/:token: the cached amount while it is fresh,
\* else the amount Cost Explorer reports, which is cached; the amount is
\* answered with toFixed(2), and a failing call answers no amount.
ceUsage(cache, token, t) ==
    IF cache.usageAmount # NoCost /\ 1000 * SecondsBetween(cache.cachedAtMs, t) < CE_USAGE_TTL_MS
    THEN [usageAmount |-> ToFixed2(cache.usageAmount, 1), cache |-> cache]
    ELSE IF mongoUp.kind \in {"down", "malformed"} THEN [usageAmount |-> 0, cache |-> cache]
    ELSE [usageAmount |-> ToFixed2(mongoUp.ce, 1),
          cache |-> [token |-> token, usageAmount |-> mongoUp.ce, cachedAtMs |-> t,
                     tokenAtMs |-> IF cache.token # NULL \/ cache.usageAmount # NoCost
                                   THEN cache.tokenAtMs ELSE t]]

\* The MongoDB component: the stored amount of the window when positive,
\* else the Cost Explorer amount when ce-init gives a token and ce-usage a
\* positive amount, else 0.
mongodbMtd(mongoStored, cache, t) ==
    IF mongoStored > 0 THEN [mongodb |-> mongoStored, cache |-> cache]
    ELSE LET init == ceInit(cache, t)
         IN  IF init.token = NULL THEN [mongodb |-> 0, cache |-> init.cache]
             ELSE LET u == ceUsage(init.cache, init.token, t)
                  IN  [mongodb |-> IF u.usageAmount > 0 THEN u.usageAmount ELSE 0,
                       cache |-> u.cache]

\* The stored amount of one provider among the records of a window.
storedAmount(data, w, provider) ==
    SumAmounts(SelectSeq(getCostData(data, w.start, w.end), LAMBDA e : e.provider = provider))

\* No month window asked of a provider route.
NoIsoWindow == [start |-> [y |-> 0, m |-> 0, d |-> 0], end |-> [y |-> 0, m |-> 0, d |-> 0]]

\* gcpWindow and ceWindow are the windows the GCP summary route and the
\* ce-init route computed, from the clock at the time they ran, for the
\* call in flight.
NoTotal ==
    [pc |-> "idle", now |-> NoDate, azure |-> 0, mongoStored |-> 0,
     gcpWindow |-> NoIsoWindow, ceWindow |-> NoIsoWindow]

NoTotalResp ==
    [status |-> 0, azure |-> 0, aws |-> 0, mongodb |-> 0, gcp |-> 0, total |-> 0,
     start |-> [y |-> 0, m |-> 0, d |-> 0], end |-> [y |-> 0, m |-> 0, d |-> 0]]

\* The handler up to its first fetch: the window from the clock and the
\* Azure and MongoDB amounts of the stored records in it.
TotalStart ==
    /\ total.pc = "idle"
    /\ total' = [pc |-> "fetch", now |-> now,
                 azure |-> storedAmount(costData, MonthWindowUtc(now), "azure"),
                 mongoStored |-> storedAmount(costData, MonthWindowUtc(now), "mongodb"),
                 gcpWindow |-> NoIsoWindow, ceWindow |-> NoIsoWindow]
    /\ totalResp' = NoTotalResp
    /\ spnResp' = NoResp
    /\ UNCHANGED <<now, ticks, window, env, servicePrincipals, nextId, costData,
                   costSummaries, azureUp, mongoUp, awsUp, gcpUp, ceCacheByOrg,
                   refresh, prevStored, calm, poll,
                   ceReq, agent, openai,
                   replit>>

\* The end of a unified-total call that also drops the stored MongoDB
\* records it has replaced by the Cost Explorer amount.
TotalFinishPersisting ==
    /\ total.pc = "fetch"
    /\ LET aws == fetchTotal("/api/aws/mtd-summary", awsUp)
           gcp == fetchTotal("/api/gcp/mtd-summary", gcpUp)
           mdb == mongodbMtd(total.mongoStored, ceCacheByOrg, now)
       IN  /\ totalResp' =
                [status |-> 200, azure |-> total.azure, aws |-> aws,
                 mongodb |-> mdb.mongodb, gcp |-> gcp,
                 total |-> Plus(Plus(Plus(total.azure, aws), mdb.mongodb), gcp),
                 start |-> getMonthWindowUtc(total.now).start,
                 end |-> getMonthWindowUtc(total.now).end]
           /\ ceCacheByOrg' = mdb.cache
    /\ total' = [total EXCEPT
                    !.pc = "idle",
                    !.gcpWindow = IF gcpUp.ok THEN getMonthWindowUtc(now) ELSE NoIsoWindow,
                    !.ceWindow = IF total.mongoStored > 0
                                    \/ ceInit(ceCacheByOrg, now).cache = ceCacheByOrg
                                 THEN NoIsoWindow ELSE getMonthWindowUtc(now)]
    /\ costData' = clearCostDataByProviderType(costData, "mongodb")
    /\ spnResp' = NoResp
    /\ UNCHANGED <<now, ticks, window, env, servicePrincipals, nextId,
                   costSummaries, azureUp, mongoUp, awsUp, gcpUp, refresh,
                   prevStored, calm, poll,
                   ceReq, agent, openai,
                   replit>>

\* The handler from its fetches to the response: the AWS and GCP totals
\* of the summary routes, the MongoDB component, and the plain sum.
TotalFinish ==
    /\ total.pc = "fetch"
    /\ LET aws == fetchTotal("/api/aws/mtd-summary", awsUp)
           gcp == fetchTotal("/api/gcp/mtd-summary", gcpUp)
           mdb == mongodbMtd(total.mongoStored, ceCacheByOrg, now)
       IN  /\ totalResp' =
                [status |-> 200, azure |-> total.azure, aws |-> aws,
                 mongodb |-> mdb.mongodb, gcp |-> gcp,
                 total |-> Plus(Plus(Plus(total.azure, aws), mdb.mongodb), gcp),
                 start |-> getMonthWindowUtc(total.now).start,
                 end |-> getMonthWindowUtc(total.now).end]
           /\ ceCacheByOrg' = mdb.cache
    /\ total' = [total EXCEPT
                    !.pc = "idle",
                    !.gcpWindow = IF gcpUp.ok THEN getMonthWindowUtc(now) ELSE NoIsoWindow,
                    !.ceWindow = IF total.mongoStored > 0
                                    \/ ceInit(ceCacheByOrg, now).cache = ceCacheByOrg
                                 THEN NoIsoWindow ELSE getMonthWindowUtc(now)]
    /\ spnResp' = NoResp
    /\ UNCHANGED <<now, ticks, window, env, servicePrincipals, nextId, costData,
                   costSummaries, azureUp, mongoUp, awsUp, gcpUp, refresh,
                   prevStored, calm, poll,
                   ceReq, agent, openai,
                   replit>>

\* ----------------------------- the Cost Explorer routes, called directly

\* The requests to the Cost Explorer routes that can be in flight together.
CeReqs == {"q1", "q2"}

\* The :token path parameter of GET /api/mongodb/ce-usage/:token: the token
\* that Atlas issued, or any other string the client sends.
CeTokens == {"token", "forged"}

\* No entry of ceCacheByOrg for the organisation.
NoCeCache ==
    [token |-> NULL, usageAmount |-> NoCost, cachedAtMs |-> NoDate, tokenAtMs |-> NoDate]

IdleCeReq ==
    [pc |-> "idle", route |-> NULL, token |-> NULL, nowMs |-> NoDate,
     cached |-> NoCeCache, status |-> 0, usageAmount |-> NoCost, fromCache |-> FALSE]

otherVarsOfCe ==
    <<now, ticks, window, env, servicePrincipals, nextId, costData, costSummaries,
      azureUp, mongoUp, awsUp, gcpUp, refresh, total, totalResp, spnResp,
      prevStored, calm, poll, agent, openai, replit>>

\* What the result URL of a token gives: the month-to-date amount for the
\* token Atlas issued, a body without usage (amount 0) for any other.
ceResult(token) == IF token = "token" THEN mongoUp.ce ELSE 0

\* POST /api/mongodb/ce-init, answered from the cache or by one Atlas call.
CeInitCall(q) ==
    /\ ceReq[q].pc \in {"idle", "done"}
    /\ LET init == ceInit(ceCacheByOrg, now)
       IN  /\ ceCacheByOrg' = init.cache
           /\ ceReq' = [ceReq EXCEPT ![q] =
                 [IdleCeReq EXCEPT
                    !.pc = "done", !.route = "ce-init", !.token = init.token,
                    !.status = IF init.token # NULL THEN 200
                               ELSE IF ~env.mongo THEN 400
                               ELSE IF mongoUp.kind = "down" THEN 500 ELSE 502,
                    !.fromCache = (init.token # NULL /\ init.cache = ceCacheByOrg)]]
    /\ UNCHANGED otherVarsOfCe

\* GET /api/mongodb/ce-usage/:token up to its first Atlas call: 400
\* without the Atlas keys, the cached amount while it is fresh, else nowMs
\* and the cache entry are kept and the polling of the result URL begins.
CeUsageBegin(q, token) ==
    /\ ceReq[q].pc \in {"idle", "done"}
    /\ ceReq' = [ceReq EXCEPT ![q] =
          IF ~env.mongo
          THEN [IdleCeReq EXCEPT !.pc = "done", !.route = "ce-usage", !.token = token,
                                 !.status = 400]
          ELSE IF /\ ceCacheByOrg.usageAmount # NoCost
                  /\ 1000 * SecondsBetween(ceCacheByOrg.cachedAtMs, now) < CE_USAGE_TTL_MS
          THEN [IdleCeReq EXCEPT !.pc = "done", !.route = "ce-usage", !.token = token,
                                 !.status = 200, !.fromCache = TRUE,
                                 !.usageAmount = ToFixed2(ceCacheByOrg.usageAmount, 1)]
          ELSE [IdleCeReq EXCEPT !.pc = "poll", !.route = "ce-usage", !.token = token,
                                 !.nowMs = now, !.cached = ceCacheByOrg]]
    /\ UNCHANGED ceCacheByOrg
    /\ UNCHANGED otherVarsOfCe

\* GET /api/mongodb/ce-usage/:token once its polling has ended: 500 when
\* Atlas does not answer, else the amount is cached under the request's
\* token, with the request's nowMs, and answered with toFixed(2).
CeUsageEnd(q) ==
    /\ ceReq[q].pc = "poll"
    /\ LET r == ceReq[q]
       IN  IF mongoUp.kind = "down"
           THEN /\ ceReq' = [ceReq EXCEPT ![q] = [r EXCEPT !.pc = "done", !.status = 500]]
                /\ UNCHANGED ceCacheByOrg
           ELSE /\ ceCacheByOrg' =
                     [token |-> r.token, usageAmount |-> ceResult(r.token),
                      cachedAtMs |-> r.nowMs,
                      tokenAtMs |-> IF r.cached = NoCeCache THEN r.nowMs
                                    ELSE r.cached.tokenAtMs]
                /\ ceReq' = [ceReq EXCEPT ![q] =
                     [r EXCEPT !.pc = "done", !.status = 200,
                               !.usageAmount = ToFixed2(ceResult(r.token), 1)]]
    /\ UNCHANGED otherVarsOfCe

\* ------------------------------------------- POST /api/agent/suggest

\* CACHE_TTL_MS of the agent cache, in milliseconds.
CACHE_TTL_MS == 180000

\* The provider of a request body: two of the four valid ones, and a
\* missing one.
AgentProviders == {"azure", "gcp", ""}

\* What the summary and the OpenAI call give: a model answer, the rules
\* (no API key, an error, an unusable answer), or a failing summary.
AgentOutcomes == {"llm", "rules", "throws"}

NoAgentResp == [status |-> 0, engine |-> NULL, cached |-> FALSE, force |-> FALSE]

\* The state at start: an empty agentCache, no request; forceEnv is
\* AGENT_FORCE_RULES = "1".
IdleAgent(forceEnv) ==
    [cache |-> {}, forceEnv |-> forceEnv, pc |-> "idle", provider |-> NULL,
     force |-> FALSE, now |-> NoDate, start |-> [y |-> 0, m |-> 0, d |-> 0],
     resp |-> NoAgentResp]

otherVarsOfAgent ==
    <<now, ticks, window, env, servicePrincipals, nextId, costData, costSummaries,
      azureUp, mongoUp, awsUp, gcpUp, ceCacheByOrg, refresh, total, totalResp,
      spnResp, prevStored, calm, poll, ceReq, openai,
                   replit>>

\* The entries of agentCache under the key provider:start.
agentCached(cache, provider, start) ==
    {e \in cache : e.provider = provider /\ e.start = start}

\* The handler up to its first await: 400 for an invalid provider, the
\* cached result while it is fresh, else the summary is requested.
AgentSuggestBegin(provider, force) ==
    /\ agent.pc \in {"idle", "done"}
    /\ LET start  == getMonthWindowUtc(now).start
           cached == agentCached(agent.cache, provider, start)
           fresh  == {e \in cached :
                        1000 * SecondsBetween(e.expiry, now) < CACHE_TTL_MS}
       IN  agent' =
             IF provider = ""
             THEN [agent EXCEPT !.pc = "done", !.provider = provider, !.force = force,
                                !.resp = [NoAgentResp EXCEPT !.status = 400,
                                                             !.force = force]]
             ELSE IF fresh # {}
             THEN [agent EXCEPT !.pc = "done", !.provider = provider, !.force = force,
                                !.resp = [status |-> 200,
                                          engine |-> (CHOOSE e \in fresh : TRUE).engine,
                                          cached |-> TRUE, force |-> force]]
             ELSE [agent EXCEPT !.pc = "build", !.provider = provider, !.force = force,
                                !.now = now, !.start = start, !.resp = NoAgentResp]
    /\ UNCHANGED otherVarsOfAgent

\* The handler from its summary on: the rules when forced, else what the
\* OpenAI call gives; the result is cached under the request's key with
\* the request's time, and answered; a failing summary answers 500.
AgentSuggestEnd(outcome) ==
    /\ agent.pc = "build"
    /\ LET forceRules == agent.forceEnv \/ agent.force
           engine == IF forceRules THEN "rules" ELSE outcome
       IN  agent' =
             IF outcome = "throws"
             THEN [agent EXCEPT !.pc = "done",
                                !.resp = [NoAgentResp EXCEPT !.status = 500,
                                                             !.force = agent.force]]
             ELSE [agent EXCEPT
                     !.pc = "done",
                     !.cache = (agent.cache \ agentCached(agent.cache, agent.provider,
                                                         agent.start))
                                 \cup {[provider |-> agent.provider, start |-> agent.start,
                                        engine |-> engine, expiry |-> agent.now]},
                     !.resp = [status |-> 200, engine |-> engine, cached |-> FALSE,
                               force |-> agent.force]]
    /\ UNCHANGED otherVarsOfAgent

\* --------------------------------------------- GET /api/openai/usage

\* CACHE_TTL_MS of the usage cache, in milliseconds.
USAGE_CACHE_TTL_MS == 60000

\* A query parameter that is absent.
NoParam == [y |-> 0, m |-> 0, d |-> 0]

\* The query strings of a request: date, start_date and end_date are days
\* or absent, limit is a string or absent.
UsageQueries ==
    [date : {NoParam, [y |-> 2024, m |-> 2, d |-> 10], [y |-> 2024, m |-> 2, d |-> 11]},
     start_date : {NoParam, [y |-> 2024, m |-> 2, d |-> 1]},
     end_date : {NoParam, [y |-> 2024, m |-> 2, d |-> 15]},
     limit : {"", "10"}]

NoQuery == [date |-> NoParam, start_date |-> NoParam, end_date |-> NoParam, limit |-> ""]

\* The qs the handler builds: start_date, end_date and limit as given, the
\* month window of the clock for a missing start_date or end_date; the
\* date parameter is not copied into it.
usageQs(query, t) ==
    [start_date |-> IF query.start_date # NoParam THEN query.start_date
                    ELSE getMonthWindowUtc(t).start,
     end_date |-> IF query.end_date # NoParam THEN query.end_date
                  ELSE getMonthWindowUtc(t).end,
     limit |-> query.limit]

\* buildCacheKey: usage:date:start_date:end_date:limit of qs, where
\* qs.get("date") is always null.
buildCacheKey(query, qs) == <<"usage", NoParam, qs.start_date, qs.end_date, qs.limit>>

\* What a request asks for: its date, and the start_date, end_date and
\* limit of its qs.
usageAsked(query, t) ==
    [date |-> query.date, start_date |-> usageQs(query, t).start_date,
     end_date |-> usageQs(query, t).end_date, limit |-> query.limit]

NoUsageResp == [status |-> 0, cached |-> FALSE, query |-> NoQuery, by |-> NoQuery]

\* The state at start: usageCache = { key: "", data: null, expiry: 0 };
\* the data of the cache is named by what the request that fetched it asked.
IdleOpenAi ==
    [cache |-> [key |-> <<>>, data |-> NoQuery, filled |-> FALSE, expiry |-> NoDate],
     pc |-> "idle", query |-> NoQuery, key |-> <<>>, now |-> NoDate,
     resp |-> NoUsageResp]

otherVarsOfOpenAi ==
    <<now, ticks, window, env, servicePrincipals, nextId, costData, costSummaries,
      azureUp, mongoUp, awsUp, gcpUp, ceCacheByOrg, refresh, total, totalResp,
      spnResp, prevStored, calm, poll, ceReq, agent, replit>>

\* The handler up to its first fetch: the cached data when the key is the
\* cache's and the entry is fresh, else the key and the time are kept.
OpenAiUsageBegin(query) ==
    /\ openai.pc \in {"idle", "done"}
    /\ LET key == buildCacheKey(query, usageQs(query, now))
       IN  openai' =
             IF /\ openai.cache.key = key /\ openai.cache.filled
                /\ 1000 * SecondsBetween(openai.cache.expiry, now) < USAGE_CACHE_TTL_MS
             THEN [openai EXCEPT !.pc = "done", !.query = query,
                                 !.resp = [status |-> 200, cached |-> TRUE,
                                           query |-> usageAsked(query, now),
                                           by |-> openai.cache.data]]
             ELSE [openai EXCEPT !.pc = "fetch", !.query = query, !.key = key,
                                 !.now = now, !.resp = NoUsageResp]
    /\ UNCHANGED otherVarsOfOpenAi

\* The handler once OpenAI has answered: the day of a date query, or the
\* days from start_date to end_date, are cached under the request's key
\* with the request's time, and answered; a failing day query answers 500.
OpenAiUsageEnd(ok) ==
    /\ openai.pc = "fetch"
    /\ openai' =
          IF ~ok /\ openai.query.date # NoParam
          THEN [openai EXCEPT !.pc = "done",
                              !.resp = [NoUsageResp EXCEPT
                                          !.status = 500,
                                          !.query = usageAsked(openai.query, openai.now)]]
          ELSE [openai EXCEPT
                  !.pc = "done",
                  !.cache = [key |-> openai.key,
                             data |-> usageAsked(openai.query, openai.now),
                             filled |-> TRUE, expiry |-> openai.now],
                  !.resp = [status |-> 200, cached |-> FALSE,
                            query |-> usageAsked(openai.query, openai.now),
                            by |-> usageAsked(openai.query, openai.now)]]
    /\ UNCHANGED otherVarsOfOpenAi

\* ------------------------------------------- getMonthRangeIso (Replit)

\* The years and the month numbers of the selectors that match
\* /^\d{4}-\d{2}$/ ("0024-05" has the year 24, "2024-13" the month 13).
RangeYears == {24, 1999, 2023, 2024}

RangeMonths == 0..13

\* The month parameter: absent, a string that does not match the pattern,
\* or a string YYYY-MM with its two numbers.
MonthSelectors ==
    { [kind |-> "missing", y |-> 0, m |-> 0], [kind |-> "other", y |-> 0, m |-> 0] }
        \cup { [kind |-> "YYYY-MM", y |-> y, m |-> m] : y \in RangeYears, m \in RangeMonths }

\* getMonthRangeIso(month) at the instant t; the slug year-month is kept as
\* its two numbers.
getMonthRangeIso(month, t) ==
    LET year == IF month.kind = "YYYY-MM" THEN month.y ELSE getUTCFullYear(t)
        mon  == IF month.kind = "YYYY-MM" THEN month.m - 1 ELSE getUTCMonth(t)
    IN  [start |-> IsoDate(DateUTC(year, mon, 1)),
         end   |-> IsoDate(DateUTC(year, mon + 1, 1)),
         slug  |-> [y |-> year, m |-> mon + 1]]

NoRange ==
    [called |-> FALSE, month |-> [kind |-> "missing", y |-> 0, m |-> 0], ref |-> NoDate,
     range |-> [start |-> NoParam, end |-> NoParam, slug |-> [y |-> 0, m |-> 0]]]

\* GET /api/replit/usage computes the range of its month parameter.
ReplitUsage(month) ==
    /\ replit' = [called |-> TRUE, month |-> month, ref |-> now,
                  range |-> getMonthRangeIso(month, now)]
    /\ UNCHANGED <<now, ticks, window, env, servicePrincipals, nextId, costData,
                   costSummaries, azureUp, mongoUp, awsUp, gcpUp, ceCacheByOrg,
                   refresh, total, totalResp, spnResp, prevStored, calm, poll,
                   ceReq, agent, openai>>

\* -------------------------------------- the Cost Explorer result poll

\* The loop bound one larger.
PollAttemptsLoose == 12 + 1

\* for (let attempt = 0; attempt < 12; attempt++)
PollAttempts == 12

\* setTimeout(r, 1000) between two fetches, in milliseconds.
PollSleepMs == 1000

\* The three places that poll a Cost Explorer token for its result.
PollRoutes == {"ce-usage", "mtd-usage", "ingest"}

\* What one fetch of the result URL gives: a body whose status is
\* IN_PROGRESS or PENDING, a body that JSON.parse rejects, a completed
\* result, or a failed call (curl exits with an error, fetch rejects).
PollAnswers == {"pending", "unparseable", "completed", "failed"}

IdlePoll ==
    [pc |-> "idle", route |-> NULL, attempt |-> 0, fetches |-> 0, sleptMs |-> 0,
     usageData |-> FALSE, status |-> 0, error |-> NULL]

otherVarsOfPoll ==
    <<now, ticks, window, env, servicePrincipals, nextId, costData, costSummaries,
      azureUp, mongoUp, awsUp, gcpUp, ceCacheByOrg, refresh, total, totalResp,
      spnResp, prevStored, calm, ceReq, agent, openai,
                   replit>>

\* A handler has its token and enters the loop with attempt = 0.
PollStart(route) ==
    /\ poll.pc \in {"idle", "done"}
    /\ poll' = [IdlePoll EXCEPT !.pc = "fetch", !.route = route]
    /\ UNCHANGED otherVarsOfPoll

\* How a poll that leaves its loop without usageData ends: the two routes
\* answer 502, the ingestion throws inside its Cost Explorer try block.
PollNotReady(p) ==
    [p EXCEPT !.pc = "done",
              !.status = IF p.route = "ingest" THEN 0 ELSE 502,
              !.error = "Cost Explorer result not ready"]

\* One iteration up to its await: the fetch and what it answers.
PollFetch ==
    /\ poll.pc = "fetch"
    /\ \E answer \in PollAnswers :
          poll' =
            IF answer = "failed"
            THEN [poll EXCEPT !.pc = "done", !.fetches = @ + 1,
                              !.status = IF poll.route = "ingest" THEN 0 ELSE 500,
                              !.error = "failed"]
            ELSE IF answer = "completed"
            THEN [poll EXCEPT !.pc = "done", !.fetches = @ + 1, !.usageData = TRUE,
                              !.status = IF poll.route = "ingest" THEN 0 ELSE 200]
            ELSE [poll EXCEPT !.pc = "sleep", !.fetches = @ + 1]
    /\ UNCHANGED otherVarsOfPoll

\* The timer of a pending or unparseable answer fires: attempt++, then the
\* loop test, then either the next fetch or the end without usageData.
PollSleep ==
    /\ poll.pc = "sleep"
    /\ LET p == [poll EXCEPT !.attempt = @ + 1, !.sleptMs = @ + PollSleepMs]
       IN  poll' = IF p.attempt < PollAttempts THEN [p EXCEPT !.pc = "fetch"]
                   ELSE PollNotReady(p)
    /\ UNCHANGED otherVarsOfPoll

\* ------------------------------------------------------- specifications

\* 2024-02-29 23:59:00 UTC: one tick later the month is March.
StartInstant == [day |-> DayFromYear(2024) + 59, sec |-> 86340]

\* The state after the module is loaded and MemStorage is constructed, in
\* the environment env.
InitProgram ==
    /\ ticks = 0
    /\ servicePrincipals = initializeAzureCredentials(env)
    /\ nextId = Len(servicePrincipals) + 1
    /\ costData = <<>>
    /\ costSummaries = <<>>
    /\ ceCacheByOrg = [token |-> NULL, usageAmount |-> NoCost, cachedAtMs |-> NoDate,
                       tokenAtMs |-> NoDate]
    /\ refresh = [r \in RefreshProcs |-> IdleRefresh]
    /\ total = NoTotal
    /\ totalResp = NoTotalResp
    /\ spnResp = NoResp
    /\ prevStored = Stored(<<>>)
    /\ calm = 0
    /\ poll = IdlePoll
    /\ ceReq = [q \in CeReqs |-> IdleCeReq]
    /\ openai = IdleOpenAi
    /\ replit = NoRange
    /\ agent = IdleAgent(FALSE)

Init ==
    /\ now = StartInstant
    /\ window = NoWindow
    /\ env \in [azure : BOOLEAN, mongo : BOOLEAN]
    /\ azureUp \in AzureUpSet
    /\ mongoUp \in MongoUpSet
    /\ awsUp = [ok |-> TRUE, total |-> 38400]
    /\ gcpUp = [ok |-> TRUE, total |-> 12104]
    /\ InitProgram

\* The refresh handler, with the credential writes and the clock that can
\* interleave with it at its upstream calls.
Next ==
    \/ \E id \in 1..MaxCreds, s \in {"active", "disabled"} :
          UpdateServicePrincipal(id, [status |-> s])
    \/ RefreshStart("r1")
    \/ RefreshStep("r1")
    \/ Tick

Spec == Init /\ [][Next]_vars

\* The credential handlers on their own.
NextCreds ==
    \/ ListServicePrincipals
    \/ \E p \in {"azure", "mongodb"} : CreateServicePrincipal(p)
    \/ \E id \in 1..MaxCreds, s \in PutStatuses : UpdateServicePrincipal(id, [status |-> s])
    \/ \E id \in 1..MaxCreds : DeleteServicePrincipal(id)
    \/ \E id \in 1..MaxCreds : TestConnection(id)
    \/ Tick

SpecCreds == Init /\ [][NextCreds]_vars

\* The unified total, reading what the refresh handler stored.
InitTotal ==
    /\ now = StartInstant
    /\ window = NoWindow
    /\ env \in [azure : BOOLEAN, mongo : BOOLEAN]
    /\ azureUp \in AzureUpSet
    /\ mongoUp \in MongoUpSet
    /\ awsUp \in AwsUpSet
    /\ gcpUp \in GcpUpSet
    /\ InitProgram

NextTotal ==
    \/ RefreshStart("r1")
    \/ RefreshStep("r1")
    \/ TotalStart
    \/ TotalFinish
    \/ Tick

SpecTotal == InitTotal /\ [][NextTotal]_vars

\* The unified total and the refresh while what Atlas answers changes: the
\* month-to-date amount of Cost Explorer grows, or Atlas stops answering.
MongoDriftSet ==
    { [kind |-> "ce", ce |-> 5004, usage |-> <<>>],
      [kind |-> "ce", ce |-> 6208, usage |-> <<>>],
      [kind |-> "down", ce |-> 0, usage |-> <<>>] }

MongoUpstreamChange ==
    /\ \E m \in MongoDriftSet \ {mongoUp} : mongoUp' = m
    /\ spnResp' = NoResp
    /\ UNCHANGED <<now, ticks, window, env, servicePrincipals, nextId, costData,
                   costSummaries, azureUp, awsUp, gcpUp, ceCacheByOrg, refresh,
                   total, totalResp, prevStored, calm, poll,
                   ceReq, agent, openai,
                   replit>>

InitDrift ==
    /\ now = StartInstant
    /\ window = NoWindow
    /\ env \in {[azure |-> a, mongo |-> TRUE] : a \in BOOLEAN}
    /\ azureUp = [kind |-> "rows", rows |-> <<>>]
    /\ mongoUp = [kind |-> "ce", ce |-> 5004, usage |-> <<>>]
    /\ awsUp = [ok |-> TRUE, total |-> 38400]
    /\ gcpUp = [ok |-> TRUE, total |-> 12104]
    /\ InitProgram

NextDrift ==
    \/ RefreshStart("r1")
    \/ RefreshStep("r1")
    \/ TotalStart
    \/ TotalFinish
    \/ MongoUpstreamChange
    \/ Tick

SpecDrift == InitDrift /\ [][NextDrift]_vars


InitCe ==
    /\ now = StartInstant
    /\ window = NoWindow
    /\ env \in {[azure |-> FALSE, mongo |-> m] : m \in BOOLEAN}
    /\ azureUp = [kind |-> "rows", rows |-> <<>>]
    /\ mongoUp \in MongoDriftSet
    /\ awsUp = [ok |-> TRUE, total |-> 38400]
    /\ gcpUp = [ok |-> TRUE, total |-> 12104]
    /\ InitProgram

NextCe ==
    \/ \E q \in CeReqs : CeInitCall(q)
    \/ \E q \in CeReqs, token \in CeTokens : CeUsageBegin(q, token)
    \/ \E q \in CeReqs : CeUsageEnd(q)
    \/ Tick

\* The Cost Explorer routes called by clients, two requests at a time.
SpecCe == InitCe /\ [][NextCe]_vars

InitAgent ==
    /\ now = StartInstant
    /\ window = NoWindow
    /\ env = [azure |-> FALSE, mongo |-> FALSE]
    /\ azureUp = [kind |-> "rows", rows |-> <<>>]
    /\ mongoUp = [kind |-> "down", ce |-> 0, usage |-> <<>>]
    /\ awsUp = [ok |-> TRUE, total |-> 38400]
    /\ gcpUp = [ok |-> TRUE, total |-> 12104]
    /\ ticks = 0
    /\ servicePrincipals = initializeAzureCredentials(env)
    /\ nextId = Len(servicePrincipals) + 1
    /\ costData = <<>>
    /\ costSummaries = <<>>
    /\ ceCacheByOrg = NoCeCache
    /\ refresh = [r \in RefreshProcs |-> IdleRefresh]
    /\ total = NoTotal
    /\ totalResp = NoTotalResp
    /\ spnResp = NoResp
    /\ prevStored = Stored(<<>>)
    /\ calm = 0
    /\ poll = IdlePoll
    /\ ceReq = [q \in CeReqs |-> IdleCeReq]
    /\ openai = IdleOpenAi
    /\ replit = NoRange
    /\ \E forceEnv \in BOOLEAN : agent = IdleAgent(forceEnv)

NextAgent ==
    \/ \E provider \in AgentProviders, force \in BOOLEAN :
          AgentSuggestBegin(provider, force)
    \/ \E outcome \in AgentOutcomes : AgentSuggestEnd(outcome)
    \/ Tick

\* The suggestion route on its own, one request after the other.
SpecAgent == InitAgent /\ [][NextAgent]_vars

InitTwoRefresh ==
    /\ now = StartInstant
    /\ window = NoWindow
    /\ env \in {[azure |-> a, mongo |-> TRUE] : a \in BOOLEAN}
    /\ azureUp \in AzureUpSet
    /\ mongoUp \in MongoUpSet
    /\ awsUp = [ok |-> TRUE, total |-> 38400]
    /\ gcpUp = [ok |-> TRUE, total |-> 12104]
    /\ InitProgram

NextTwoRefresh ==
    \/ \E r \in RefreshProcs : RefreshStart(r)
    \/ \E r \in RefreshProcs : RefreshStep(r)
    \/ Tick

\* Two POST /api/refresh-cost-data calls at a time, the upstreams fixed.
SpecTwoRefresh == InitTwoRefresh /\ [][NextTwoRefresh]_vars

InitOpenAi ==
    /\ now = StartInstant
    /\ window = NoWindow
    /\ env = [azure |-> FALSE, mongo |-> FALSE]
    /\ azureUp = [kind |-> "rows", rows |-> <<>>]
    /\ mongoUp = [kind |-> "down", ce |-> 0, usage |-> <<>>]
    /\ awsUp = [ok |-> TRUE, total |-> 38400]
    /\ gcpUp = [ok |-> TRUE, total |-> 12104]
    /\ InitProgram

NextOpenAi ==
    \/ \E query \in UsageQueries : OpenAiUsageBegin(query)
    \/ \E ok \in BOOLEAN : OpenAiUsageEnd(ok)
    \/ Tick

\* The OpenAI usage route on its own, one request after the other.
SpecOpenAi == InitOpenAi /\ [][NextOpenAi]_vars

InitReplit ==
    /\ now \in {StartInstant, [day |-> DayFromYear(2024) - 1, sec |-> 86340]}
    /\ window = NoWindow
    /\ env = [azure |-> FALSE, mongo |-> FALSE]
    /\ azureUp = [kind |-> "rows", rows |-> <<>>]
    /\ mongoUp = [kind |-> "down", ce |-> 0, usage |-> <<>>]
    /\ awsUp = [ok |-> TRUE, total |-> 38400]
    /\ gcpUp = [ok |-> TRUE, total |-> 12104]
    /\ InitProgram

NextReplit ==
    \/ \E month \in MonthSelectors : ReplitUsage(month)
    \/ Tick

\* The month range of the Replit usage route, for every selector.
SpecReplit == InitReplit /\ [][NextReplit]_vars

\* The poll on its own; each fetch is answered and each timer fires.
InitPoll ==
    /\ now = StartInstant
    /\ window = NoWindow
    /\ env = [azure |-> FALSE, mongo |-> TRUE]
    /\ azureUp = [kind |-> "rows", rows |-> <<>>]
    /\ mongoUp = [kind |-> "ce", ce |-> 5004, usage |-> <<>>]
    /\ awsUp = [ok |-> TRUE, total |-> 38400]
    /\ gcpUp = [ok |-> TRUE, total |-> 12104]
    /\ InitProgram

NextPoll ==
    \/ \E route \in PollRoutes : PollStart(route)
    \/ PollFetch
    \/ PollSleep

SpecPoll == InitPoll /\ [][NextPoll]_vars /\ WF_vars(PollFetch) /\ WF_vars(PollSleep)

\* ----------------------------------------------------------- properties

\* The providers whose live collection fails in the current upstream state.
FailedProviders ==
    (IF awsUp.ok THEN {} ELSE {"aws"})
        \cup (IF gcpUp.ok THEN {} ELSE {"gcp"})
        \cup (IF mongoUp.kind \in {"down", "malformed"} THEN {"mongodb"} ELSE {})

\* C1: when exactly one provider's live collection fails, the response of
\* GET /api/total/mtd-usd is a 200 that carries the live value of every
\* other provider (the AWS total, the GCP total, the Cost Explorer amount of
\* a configured Atlas organisation) and, for the failed provider, its stored
\* amount or zero.
C1_PartialFailureIsolation ==
    (totalResp.status # 0 /\ Cardinality(FailedProviders) = 1) =>
        /\ totalResp.status = 200
        /\ IF "aws" \in FailedProviders THEN totalResp.aws = 0
           ELSE totalResp.aws = awsUp.total
        /\ IF "gcp" \in FailedProviders THEN totalResp.gcp = 0
           ELSE totalResp.gcp = gcpUp.total
        /\ IF "mongodb" \in FailedProviders
           THEN totalResp.mongodb \in {0, total.mongoStored}
           ELSE (env.mongo /\ mongoUp.kind = "ce") =>
                    totalResp.mongodb = ToFixed2(mongoUp.ce, 1)

\* C2: a refresh call that completes as the second (or later) of a run of
\* calls made one after the other, with the same upstream data and no
\* credential write in between, leaves per provider the row count and the
\* summed amount that the call before it left.
C2_RefreshIdempotent ==
    [][ (refresh'["r1"].pc = "idle" /\ refresh'["r1"] # refresh["r1"] /\ calm' = 2)
            => Stored(costData') = prevStored ]_vars

\* Two refresh calls in a row have completed, the second with success, and
\* both providers have stored rows.
C2_Witness ==
    /\ calm = 2
    /\ refresh["r1"].pc = "idle"
    /\ refresh["r1"].resp.success
    /\ Stored(costData)["azure"].count > 0
    /\ Stored(costData)["mongodb"].count > 0

\* The stored records of the providers other than Azure.
NotAzure(data) == SelectSeq(data, LAMBDA e : e.provider # "azure")

\* C3: the step of a refresh that completes an Azure ingestion, and begins
\* no other, leaves the stored records of every other provider unchanged.
C3_WritesScopedPerProvider ==
    [][ ( /\ refresh["r1"].pc = "ingest"
          /\ refresh'["r1"].pc = "idle"
          /\ refresh["r1"].spns[refresh["r1"].i].provider = "azure" )
            => NotAzure(costData') = NotAzure(costData) ]_vars

\* C4: when a refresh call has answered, ingestion has been run for every
\* credential that was active when the call read the credentials.
C4_FailureDoesNotAbortOthers ==
    refresh["r1"].pc = "idle" => refresh["r1"].ran = SpnIds(refresh["r1"].spns)

\* C5: the step of a refresh that completes the ingestion of a credential
\* sets the credential's lastSync to the clock when the ingestion succeeded,
\* and when it failed sets its status to error, records an errorMessage and
\* leaves its lastSync as it was.
C5_LastSyncOrError ==
    [][ (refresh["r1"].pc = "ingest" /\ refresh'["r1"] # refresh["r1"]) =>
            LET id == refresh["r1"].spns[refresh["r1"].i].id
            IN  (id \in SpnIds(servicePrincipals) /\ id \in SpnIds(servicePrincipals')) =>
                    LET before == getServicePrincipal(servicePrincipals, id)
                        after  == getServicePrincipal(servicePrincipals', id)
                    IN  IF refresh'["r1"].resp.status = 500
                        THEN /\ after.status = "error"
                             /\ after.errorMessage # NULL
                             /\ after.lastSync = before.lastSync
                        ELSE after.lastSync = now ]_vars

\* C6: every status a credential has is one of active, error, disabled, and
\* a step changes the status of a credential only from active to error, from
\* error to active, or from anything to disabled.
C6_StatusTransitions ==
    [][ \A k \in DOMAIN servicePrincipals' :
            /\ servicePrincipals'[k].status \in {"active", "error", "disabled"}
            /\ servicePrincipals'[k].id \in SpnIds(servicePrincipals) =>
                 LET from == getServicePrincipal(servicePrincipals, servicePrincipals'[k].id).status
                     to   == servicePrincipals'[k].status
                 IN  \/ to = from
                     \/ to = "disabled"
                     \/ (from = "active" /\ to = "error")
                     \/ (from = "error" /\ to = "active") ]_vars

C8_SecretsMasked ==
    \A i \in DOMAIN spnResp.body :
        /\ spnResp.body[i].clientSecret # AzureClientSecret
        /\ spnResp.body[i].privateKey # MongoPrivateKey

\* C9: the total of a 200 response is the sum of its azure, aws, mongodb and
\* gcp amounts each rounded to 2 decimals.
C9_RoundThenSum ==
    totalResp.status = 200 =>
        totalResp.total = ToFixed2(totalResp.azure, 1) + ToFixed2(totalResp.aws, 1)
                            + ToFixed2(totalResp.mongodb, 1) + ToFixed2(totalResp.gcp, 1)

\* C11: in a response of GET /api/total/mtd-usd, the window the GCP summary
\* was queried for, and the window a Cost Explorer query was started for,
\* are the window the handler computed and reports as start and end.
C11_OneWindowPerCall ==
    totalResp.status = 200 =>
        /\ total.gcpWindow \in {NoIsoWindow, [start |-> totalResp.start, end |-> totalResp.end]}
        /\ total.ceWindow \in {NoIsoWindow, [start |-> totalResp.start, end |-> totalResp.end]}

\* The amount of the stored records of a provider dated in [start, end).
HalfOpenAmount(data, w, provider) ==
    SumAmounts(SelectSeq(data, LAMBDA e :
        e.provider = provider /\ DateLe(w.start, e.date) /\ ~DateLe(w.end, e.date)))

\* C12: the stored Azure and MongoDB amounts the total handler reads are the
\* sums of the stored records of the provider dated d with
\* start <= d < end of the month window of the clock.
C12_StoredSumHalfOpen ==
    [][ (total.pc = "idle" /\ total'.pc = "fetch") =>
            /\ total'.azure = HalfOpenAmount(costData, MonthWindowUtc(now), "azure")
            /\ total'.mongoStored = HalfOpenAmount(costData, MonthWindowUtc(now), "mongodb") ]_vars

\* C13: GET /api/total/mtd-usd never answers an error, and in its response
\* a provider that is not configured, or fails, or has no stored record,
\* has the amount 0: azure without an Azure credential or stored Azure
\* record, aws and gcp when their collection gives nothing, mongodb without
\* Atlas keys and stored MongoDB records.
C13_AllProvidersPresent ==
    /\ totalResp.status \in {0, 200}
    /\ totalResp.status = 200 =>
         /\ DOMAIN totalResp = {"status", "azure", "aws", "mongodb", "gcp", "total", "start", "end"}
         /\ (~env.azure \/ Stored(costData)["azure"].count = 0) => totalResp.azure = 0
         /\ ~awsUp.ok => totalResp.aws = 0
         /\ ~gcpUp.ok => totalResp.gcp = 0
         /\ (~env.mongo /\ total.mongoStored = 0) => totalResp.mongodb = 0

\* A response for a server with no provider configured or answering.
C13_Witness ==
    /\ totalResp.status = 200
    /\ ~env.azure /\ ~env.mongo /\ ~awsUp.ok /\ ~gcpUp.ok
    /\ totalResp.azure = 0 /\ totalResp.aws = 0 /\ totalResp.mongodb = 0 /\ totalResp.gcp = 0

\* C14: the mongodb amount of a response is the amount the Cost Explorer
\* routes give at the time of the call when that amount is positive, and
\* the stored MongoDB amount of the window only otherwise.
C14_MongoLiveFirst ==
    [][ (total.pc = "fetch" /\ total'.pc = "idle") =>
            LET live == mongodbMtd(0, ceCacheByOrg, now).mongodb
            IN  totalResp'.mongodb = IF live > 0 THEN live ELSE total.mongoStored ]_vars

AzureRows(data) == SelectSeq(data, LAMBDA e : e.provider = "azure")

\* A refresh step completes an Azure ingestion of at least one row.
AzureIngested ==
    /\ refresh["r1"].pc = "ingest"
    /\ refresh["r1"].spns[refresh["r1"].i].provider = "azure"
    /\ refresh'["r1"] # refresh["r1"]
    /\ refresh'["r1"].resp.status # 500
    /\ Len(azureUp.rows) > 0

\* C16: the Azure ingestion stores one USD record per row, whose
\* amount is the reported amount itself for USD and the reported amount
\* times the rate for INR and for any other currency.
C16_NormalizedExactly ==
    [][ AzureIngested =>
            /\ Len(AzureRows(costData')) = Len(azureUp.rows)
            /\ \A k \in DOMAIN azureUp.rows :
                  LET r == azureUp.rows[k]
                      e == AzureRows(costData')[k]
                  IN  r.cost # NaN =>
                        /\ e.currency = "USD"
                        /\ IF r.currency = "USD" THEN e.dailyCost = r.cost
                           ELSE 1000 * e.dailyCost = InrToUsdRate * r.cost ]_vars

\* C17: no stored amount is NaN, and neither a component nor the total of
\* the unified response, nor the total of a cost summary, is NaN.
C17_NoNaN ==
    /\ \A k \in DOMAIN costData :
          costData[k].dailyCost # NaN /\ costData[k].monthlyCost # NaN
    /\ totalResp.status = 200 =>
          /\ totalResp.azure # NaN /\ totalResp.aws # NaN
          /\ totalResp.mongodb # NaN /\ totalResp.gcp # NaN
          /\ totalResp.total # NaN
    /\ \A k \in DOMAIN costSummaries : costSummaries[k].totalMonthlyCost # NaN

\* C18: the aws amount of the unified response is the live month-to-date
\* total of AWS Cost Explorer whenever its query succeeds, and is 0 only
\* when the query fails or AWS is not configured.
C18_AwsLive ==
    totalResp.status = 200 =>
        /\ awsUp.ok => totalResp.aws = awsUp.total
        /\ totalResp.aws = 0 => (~awsUp.ok \/ awsUp.total = 0)

\* C19: when a refresh answers success, at an instant later than the last
\* summary's, the latest cost summary is the one of the records then
\* stored; with no record stored, no summary of earlier records is latest.
C19_SummaryRecomputed ==
    [][ ( /\ refresh["r1"].pc = "ingest"
          /\ refresh'["r1"].pc = "idle"
          /\ refresh'["r1"].resp.success
          /\ (costSummaries = <<>> \/ costSummaries[1].lastUpdated # now) )
        => IF costData' = <<>>
           THEN \/ costSummaries' = <<>>
                \/ costSummaries'[1] = [totalMonthlyCost |-> 0, lastUpdated |-> now]
           ELSE /\ costSummaries' # <<>>
                /\ costSummaries'[1] =
                      [totalMonthlyCost |-> SumAmounts(costData'), lastUpdated |-> now] ]_vars

\* C20: a unified-total call that reads the store while a refresh is
\* running, with the upstreams and the credentials unchanged since the
\* refresh before it, finds each provider's complete record set (row count
\* and amount), which is the one that refresh left.
C20_NoHalfReplacedRead ==
    [][ ( /\ total.pc = "idle" /\ total'.pc = "fetch"
          /\ refresh["r1"].pc = "ingest"
          /\ calm = 2 )
        => Stored(costData) = prevStored ]_vars

\* The unified-total call that now finishes takes its mongodb amount from
\* the cached Cost Explorer amount.
ServedFromCeCache ==
    /\ total.pc = "fetch" /\ total'.pc = "idle"
    /\ ~(total.mongoStored > 0)
    /\ ceInit(ceCacheByOrg, now).token # NULL
    /\ ceCacheByOrg.usageAmount # NoCost
    /\ 1000 * SecondsBetween(ceCacheByOrg.cachedAtMs, now) < CE_USAGE_TTL_MS

\* C21: a cached Cost Explorer amount is served only in the UTC month in
\* which it was fetched, never as the month-to-date usage of a later month.
C21_CacheSameWindow ==
    [][ ServedFromCeCache =>
            getMonthWindowUtc(ceCacheByOrg.cachedAtMs) = getMonthWindowUtc(now) ]_vars

ValidCredentials(spn) ==
    IF spn.provider = "azure" THEN testAzureConnection(spn)
    ELSE testMongoDBAtlasConnection(spn)

\* C23: a test-connection call on a stored credential, of either provider,
\* makes it active when its credentials are valid, and else puts it in
\* error with an error message.
C23_TestConnectionRecovers ==
    [][ \A id \in SpnIds(servicePrincipals) :
          TestConnection(id) =>
            LET spn == getServicePrincipal(servicePrincipals, id)
                new == getServicePrincipal(servicePrincipals', id)
            IN  IF ValidCredentials(spn) THEN new.status = "active"
                ELSE new.status = "error" /\ new.errorMessage # NULL ]_vars

\* C24: when a refresh of MongoDB credentials only ends while Atlas gives
\* no cost data, the MongoDB records that the refresh before it left are
\* still stored.
C24_FailedRunKeepsRecords ==
    [][ ( /\ refresh["r1"].pc = "ingest" /\ refresh'["r1"].pc = "idle"
          /\ \A k \in DOMAIN refresh["r1"].spns :
                refresh["r1"].spns[k].provider = "mongodb"
          /\ mongoUp.kind = "down"
          /\ prevStored["mongodb"].count > 0 )
        => Stored(costData')["mongodb"] = prevStored["mongodb"] ]_vars

\* C25: at most one polling sequence of the Cost Explorer result is in
\* flight for the organisation at any time.
C25_OnePollInFlight ==
    Cardinality({q \in CeReqs : ceReq[q].pc = "poll"}) <= 1

\* C28: a token that ce-init answers from its cache is the token Atlas
\* issued, never a string that a client sent as the :token of ce-usage.
C28_CachedTokenFromUpstream ==
    \A q \in CeReqs :
        (ceReq[q].route = "ce-init" /\ ceReq[q].status = 200 /\ ceReq[q].fromCache)
            => ceReq[q].token = "token"

\* C26: a suggestion answered to a request made with force=rules, or under
\* AGENT_FORCE_RULES=1, comes from the rules engine.
C26_ForcedRulesAnswersRules ==
    (agent.resp.status = 200 /\ (agent.resp.force \/ agent.forceEnv))
        => agent.resp.engine = "rules"

\* C27: once two refresh calls have both answered success, with Cost
\* Explorer giving a positive amount, exactly one MongoDB record is stored.
C27_OneCeRowAfterTwoRefreshes ==
    ( /\ \A r \in RefreshProcs : refresh[r].pc = "idle" /\ refresh[r].resp.success
      /\ mongoUp.kind = "ce" /\ mongoUp.ce > 0 )
        => Stored(costData)["mongodb"].count = 1

\* C29: a usage response served from the cache holds the data fetched for
\* a request that asked for the same date, start_date, end_date and limit
\* (a missing start_date or end_date being the month window's).
C29_CacheSameParameters ==
    (openai.resp.status = 200 /\ openai.resp.cached)
        => openai.resp.by = openai.resp.query

\* C30: for a selector YYYY-MM the start of the range is the first day of
\* the month that the slug names and the end is the first day of the month
\* after it; for a missing or other selector the range and the slug are
\* those of the UTC month of the clock.
C30_RangeOfSlug ==
    replit.called =>
        LET r == replit.range
        IN  IF replit.month.kind = "YYYY-MM"
            THEN /\ r.start = [y |-> r.slug.y, m |-> r.slug.m, d |-> 1]
                 /\ r.end = IF r.slug.m = 12 THEN [y |-> r.slug.y + 1, m |-> 1, d |-> 1]
                            ELSE [y |-> r.slug.y, m |-> r.slug.m + 1, d |-> 1]
            ELSE /\ r.start = getMonthWindowUtc(replit.ref).start
                 /\ r.end = getMonthWindowUtc(replit.ref).end
                 /\ r.slug = [y |-> getUTCFullYear(replit.ref),
                              m |-> getUTCMonth(replit.ref) + 1]

\* --------------------------------------------- month-window specification

WinYearSet == (WinFirstYear .. (WinFirstYear + WinYears - 1)) \cup {2000, 2100}

NowSet ==
    { [day |-> d, sec |-> s] :
        d \in UNION { DayFromYear(y) .. (DayFromYear(y + 1) - 1) : y \in WinYearSet },
        s \in {0, 43200, 86399} }

InitWindow ==
    /\ now \in NowSet
    /\ window = NoWindow
    /\ env = [azure |-> TRUE, mongo |-> TRUE]
    /\ azureUp = [kind |-> "rows", rows |-> <<>>]
    /\ mongoUp = [kind |-> "down", ce |-> 0, usage |-> <<>>]
    /\ awsUp = [ok |-> TRUE, total |-> 38400]
    /\ gcpUp = [ok |-> TRUE, total |-> 12104]
    /\ InitProgram

\* One handling of a request that computes the month window from the clock.
ComputeWindow ==
    /\ ~window.computed
    /\ window' = [computed |-> TRUE, ref |-> now, w |-> MonthWindowUtc(now), iso |-> getMonthWindowUtc(now)]
    /\ UNCHANGED <<now, ticks, env, servicePrincipals, nextId, costData,
                   costSummaries, azureUp, mongoUp, awsUp, gcpUp, ceCacheByOrg,
                   refresh, total, totalResp, spnResp, prevStored, calm, poll,
                   ceReq, agent, openai,
                   replit>>

NextWindow == ComputeWindow

SpecWindow == InitWindow /\ [][NextWindow]_vars

\* Length in days of month m (0 = January) of year y, by the Gregorian rule.
DaysInMonth(y, m) ==
    LET leap == (y % 4 = 0 /\ y % 100 # 0) \/ (y % 400 = 0)
    IN  IF m = 1 THEN (IF leap THEN 29 ELSE 28)
        ELSE IF m \in {3, 5, 8, 10} THEN 30 ELSE 31

\* C10: for every reference instant, start is day 1, 00:00:00 UTC of the
\* reference month, end is day 1, 00:00:00 UTC of the following month, and
\* end - start is the number of days of that month (December rolls over to
\* January of the next year; February of a leap year has 29 days).
C10_WindowCorrect ==
    window.computed =>
        LET y == getUTCFullYear(window.ref)
            m == getUTCMonth(window.ref)
            s == window.w.start
            e == window.w.end
        IN  /\ s.sec = 0 /\ e.sec = 0
            /\ window.iso.start = [y |-> y, m |-> m + 1, d |-> 1]
            /\ window.iso.end = IF m = 11 THEN [y |-> y + 1, m |-> 1, d |-> 1]
                                ELSE [y |-> y, m |-> m + 2, d |-> 1]
            /\ e.day - s.day = DaysInMonth(y, m)
            /\ s.day <= window.ref.day /\ window.ref.day < e.day

\* A window was computed on 31 December, and one on 29 February of a leap year.
C10_Witness ==
    /\ window.computed
    /\ getUTCMonth(window.ref) = 11
    /\ getUTCDate(window.ref) = 31
    /\ window.iso.end.m = 1

C10_WitnessLeap ==
    /\ window.computed
    /\ getUTCMonth(window.ref) = 1
    /\ getUTCDate(window.ref) = 29

====
